---- MODULE Spec2Model ----
(***************************************************************************)
(* font.properties validator / normalizer / interpreter.                   *)
(*                                                                         *)
(* The model follows src/interpreter/interpreter.py (parse_properties,     *)
(* build_normalized, choose_font, cmd_normalize, cmd_interp) and           *)
(* src/lab4/analyser.py (the same parse_properties without the arithmetic  *)
(* pre-evaluation, and main).                                              *)
(*                                                                         *)
(* Text is modelled structurally.  A digit string is a sequence of hex     *)
(* digit values 0..15 (so "00FF" is <<0,0,15,15>>); a key is the record    *)
(* of its dot-separated pieces; a value is a tagged record of its shape.   *)
(* Two keys are the same Python string iff their records are equal.        *)
(***************************************************************************)
EXTENDS Integers, Sequences, FiniteSets, TLC

VARIABLES
    prog,          \* which program runs: "interpreter" or "lab4"
    pc,            \* position of the run
    lines,         \* the lines of the file consumed so far (raw)
    errors,        \* parse_properties: errors
    warnings,      \* parse_properties: warnings
    font_defs,     \* dict (family, index) -> record, in insertion order
    fontcharset,   \* dict (family, index) -> {class, line}, in insertion order
    exclusions,    \* defaultdict family -> list of {start, end, line}
    globals_,      \* {"defaultChar", "inputTextCharset"}
    seen_keys,     \* set of key strings
    families,      \* build_normalized: family -> entries
    ex_norm,       \* build_normalized: family -> ranges
    g,             \* build_normalized: globals
    query,         \* arguments of choose_font: family, codepoint, explain
    result,        \* choose_font: the message
    trace          \* choose_font: the trace

vars == <<prog, pc, lines, errors, warnings, font_defs, fontcharset, exclusions,
          globals_, seen_keys, families, ex_norm, g, query, result, trace>>

(***************************************************************************)
(* Bounds of the model.                                                    *)
(***************************************************************************)
\* longest file of the validation runs and of the exclusion runs
MaxLines == 4
\* longest file of the resolution runs
MaxLinesResolve == 5

(***************************************************************************)
(* Program constants.                                                      *)
(***************************************************************************)
AnsiMax == 255
ExclusionMax == 65535
DefaultCharMax == 1114111

CHARSETS == {"ANSI_CHARSET", "SYMBOL_CHARSET"}
FLAGS == {"NEED_CONVERTED"}

\* Python's None and a present value, for optional fields.
None == <<>>
Some(v) == <<v>>

(***************************************************************************)
(* Digit strings.                                                          *)
(***************************************************************************)
IsDecimal(ds) == \A i \in 1..Len(ds) : ds[i] < 10

RECURSIVE BaseVal(_, _)
BaseVal(ds, base) ==
    IF ds = <<>> THEN 0
    ELSE BaseVal(SubSeq(ds, 1, Len(ds) - 1), base) * base + ds[Len(ds)]

\* str(n) for n >= 0
RECURSIVE ToDigits(_)
ToDigits(n) == IF n < 10 THEN <<n>> ELSE ToDigits(n \div 10) \o <<n % 10>>

\* A digit string Python's eval accepts as an integer literal: decimal digits,
\* no leading zero unless every digit is zero.
IsPyLiteral(ds) ==
    /\ ds # <<>>
    /\ IsDecimal(ds)
    /\ (Len(ds) = 1 \/ ds[1] # 0 \/ \A i \in 1..Len(ds) : ds[i] = 0)

(***************************************************************************)
(* Values (the text right of "=", stripped).                               *)
(*   empty : ""                                                            *)
(*   int   : optional "-" and a digit string           "65", "-5"          *)
(*   range : digit string "-" digit string             "0041-0050"         *)
(*   word  : text without "-", "," or operators        "ANSI_CHARSET"      *)
(*   list  : comma separated non-empty parts           "Arial,ANSI_CHARSET"*)
(***************************************************************************)
VEmpty == [t |-> "empty", neg |-> FALSE, a |-> <<>>, b |-> <<>>, w |-> "", parts |-> <<>>]
VInt(neg, ds) == [t |-> "int", neg |-> neg, a |-> ds, b |-> <<>>, w |-> "", parts |-> <<>>]
VRange(s, e) == [t |-> "range", neg |-> FALSE, a |-> s, b |-> e, w |-> "", parts |-> <<>>]
VWord(w) == [t |-> "word", neg |-> FALSE, a |-> <<>>, b |-> <<>>, w |-> w, parts |-> <<>>]
VList(ps) == [t |-> "list", neg |-> FALSE, a |-> <<>>, b |-> <<>>, w |-> "", parts |-> ps]

\* str(n) for any integer n, as a value
VOfInt(n) == IF n < 0 THEN VInt(TRUE, ToDigits(0 - n)) ELSE VInt(FALSE, ToDigits(n))

(***************************************************************************)
(* Keys (the text left of "=", stripped).  pre is "default.char",          *)
(* "inputtextcharset", "fontcharset", "exclusion", "" (a bare              *)
(* <family>.<index>) or "unknown"; idx is the digit string of the index;   *)
(* paren says the index is written in parentheses, "dialog.(0)".           *)
(***************************************************************************)
Key(pre, fam, idx, paren) == [pre |-> pre, fam |-> fam, idx |-> idx, paren |-> paren]

KeyDefaultChar == Key("default.char", "", <<>>, FALSE)
KeyInputTextCharset == Key("inputtextcharset", "", <<>>, FALSE)
KeyUnknown == Key("unknown", "", <<>>, FALSE)

(***************************************************************************)
(* Lines.  shape is "blank", "comment", "noeq" (no "=" in it) or "kv".     *)
(***************************************************************************)
Blank == [shape |-> "blank", key |-> KeyUnknown, value |-> VEmpty]
Comment == [shape |-> "comment", key |-> KeyUnknown, value |-> VEmpty]
NoEq == [shape |-> "noeq", key |-> KeyUnknown, value |-> VEmpty]
KV(key, value) == [shape |-> "kv", key |-> key, value |-> value]

(***************************************************************************)
(* Arithmetic pre-evaluation (interpreter only).                           *)
(***************************************************************************)
\* evaluate_key_arithmetic: "(expr)" is replaced by str(eval(expr)) when eval
\* succeeds; an index written "(007)" is a SyntaxError and stays as it is.
evaluate_key_arithmetic(line) ==
    IF line.shape = "kv" /\ line.key.paren /\ IsPyLiteral(line.key.idx)
    THEN [line EXCEPT !.key = Key(line.key.pre, line.key.fam,
                                  ToDigits(BaseVal(line.key.idx, 10)), FALSE)]
    ELSE line

\* evaluate_arithmetic_value: a value holding an operator character and made
\* only of digits, operators, dots, parentheses and spaces is replaced by
\* str(eval(value)) when eval succeeds.
evaluate_arithmetic_value(value) ==
    CASE value.t = "int" /\ value.neg /\ IsPyLiteral(value.a) ->
            VOfInt(0 - BaseVal(value.a, 10))
      [] value.t = "range" /\ IsPyLiteral(value.a) /\ IsPyLiteral(value.b) ->
            VOfInt(BaseVal(value.a, 10) - BaseVal(value.b, 10))
      [] OTHER -> value

(***************************************************************************)
(* Pieces of Python used by parse_properties.                              *)
(***************************************************************************)
\* "not value"
IsEmptyValue(value) == value.t = "empty"

\* "-" in value
HasDash(value) == value.t = "range" \/ (value.t = "int" /\ value.neg)

\* value.split("-", 1), stripped: the text before and after the first "-"
DashSplit(value) == IF value.t = "range" THEN <<value.a, value.b>> ELSE <<<<>>, value.a>>

\* int(s, 16) raises ValueError on the empty string
IsHex(ds) == ds # <<>>

\* int(value, 10) succeeds
IsInt10(value) == value.t = "int" /\ value.a # <<>> /\ IsDecimal(value.a)
Int10(value) == IF value.neg THEN 0 - BaseVal(value.a, 10) ELSE BaseVal(value.a, 10)

\* [p.strip() for p in value.split(",") if p.strip() != ""]
Parts(value) ==
    CASE value.t = "list" -> value.parts
      [] value.t = "empty" -> <<>>
      [] value.t = "word" -> <<value.w>>
      [] OTHER -> <<"number">>

\* key.startswith("exclusion.")
StartsWithExclusion(key) ==
    \/ key.pre = "exclusion"
    \/ key.pre = "" /\ key.fam = "exclusion"

\* <pre>.<family>.<digits> as fontcharset_re / exclusion_re / familydef_re match it
MatchesIndexed(key, pre) ==
    /\ key.pre = pre
    /\ key.fam # ""
    /\ ~key.paren
    /\ key.idx # <<>>
    /\ IsDecimal(key.idx)

\* int(m.group(2))
IndexOf(key) == BaseVal(key.idx, 10)

(***************************************************************************)
(* Diagnostics.  ln = 0 stands for a line-less ("Global:", "Family") entry;*)
(* fam, n and missing carry what the message text interpolates.            *)
(***************************************************************************)
Diag(ln, msg, fam, n, missing) ==
    [ln |-> ln, msg |-> msg, fam |-> fam, n |-> n, missing |-> missing]
LineErr(ln, msg) == Diag(ln, msg, "", 0, <<>>)

\* err(ln, msg)
err(ps, e) == [ps EXCEPT !.errors = Append(@, e)]

\* dict lookups by (family, index); the dicts are kept in insertion order
HasSlot(dict, fam, idx) == \E i \in 1..Len(dict) : dict[i].family = fam /\ dict[i].index = idx
SlotPos(dict, fam, idx) == CHOOSE i \in 1..Len(dict) : dict[i].family = fam /\ dict[i].index = idx
Slot(dict, fam, idx) == dict[SlotPos(dict, fam, idx)]

\* dict[(family, index)] = rec : overwrite in place, or insert at the end
PutSlot(dict, rec) ==
    IF HasSlot(dict, rec.family, rec.index)
    THEN [dict EXCEPT ![SlotPos(dict, rec.family, rec.index)] = rec]
    ELSE Append(dict, rec)

(***************************************************************************)
(* parse_properties: the body of "for ln, raw in lines".  ps is the record *)
(* of the function's locals.                                               *)
(***************************************************************************)
NewParse ==
    [errors |-> <<>>, warnings |-> <<>>, font_defs |-> <<>>, fontcharset |-> <<>>,
     exclusions |-> <<>>, seen_keys |-> {},
     globals_ |-> [defaultChar |-> None, inputTextCharset |-> None]]

\* the test without the exemption of the exclusion keys
IsDuplicateKey_anyKey(seen, key) == key \in seen

\* if key in seen_keys and not key.startswith("exclusion."): err(...)
\* seen_keys.add(key)
IsDuplicateKey(seen, key) == key \in seen /\ ~StartsWithExclusion(key)

NoteKey(ps, ln, key) ==
    LET p1 == IF IsDuplicateKey(ps.seen_keys, key)
              THEN err(ps, LineErr(ln, "Duplicate key"))
              ELSE ps
    IN  [p1 EXCEPT !.seen_keys = @ \cup {key}]

\* if not (0 <= v <= 0x10FFFF)
DefaultCharInRange(v) == 0 <= v /\ v <= DefaultCharMax

\* an out-of-range value clamped into 0..0x10FFFF and stored
HandleDefaultChar_clamped(ps, ln, value) ==
    CASE IsEmptyValue(value) -> err(ps, LineErr(ln, "default.char value is empty"))
      [] ~IsEmptyValue(value) /\ ~IsInt10(value) ->
            err(ps, LineErr(ln, "default.char must be an integer"))
      [] IsInt10(value) /\ Int10(value) < 0 ->
            [ps EXCEPT !.globals_.defaultChar = Some(0)]
      [] IsInt10(value) /\ Int10(value) > DefaultCharMax ->
            [ps EXCEPT !.globals_.defaultChar = Some(DefaultCharMax)]
      [] OTHER -> [ps EXCEPT !.globals_.defaultChar = Some(Int10(value))]

\* key == "default.char"
HandleDefaultChar(ps, ln, value) ==
    CASE IsEmptyValue(value) -> err(ps, LineErr(ln, "default.char value is empty"))
      [] ~IsEmptyValue(value) /\ ~IsInt10(value) ->
            err(ps, LineErr(ln, "default.char must be an integer"))
      [] IsInt10(value) /\ ~DefaultCharInRange(Int10(value)) ->
            err(ps, LineErr(ln, "default.char out of range 0..0x10FFFF"))
      [] OTHER -> [ps EXCEPT !.globals_.defaultChar = Some(Int10(value))]

\* the first accepted value kept
HandleInputTextCharset_keepFirst(ps, ln, value) ==
    IF ~(value.t = "word" /\ value.w \in CHARSETS)
    THEN err(ps, LineErr(ln, "inputtextcharset must be one of CHARSETS"))
    ELSE IF ps.globals_.inputTextCharset # None THEN ps
    ELSE [ps EXCEPT !.globals_.inputTextCharset = Some(value.w)]

\* key == "inputtextcharset"
HandleInputTextCharset(ps, ln, value) ==
    IF ~(value.t = "word" /\ value.w \in CHARSETS)
    THEN err(ps, LineErr(ln, "inputtextcharset must be one of CHARSETS"))
    ELSE [ps EXCEPT !.globals_.inputTextCharset = Some(value.w)]

\* fontcharset.<family>.<index>
HandleFontCharset(ps, ln, key, value) ==
    IF IsEmptyValue(value)
    THEN err(ps, Diag(ln, "fontcharset has empty class name", key.fam, IndexOf(key), <<>>))
    ELSE [ps EXCEPT !.fontcharset =
              PutSlot(@, [family |-> key.fam, index |-> IndexOf(key),
                          class |-> value, line |-> ln])]

\* the range check without start <= end
ExclusionRangeOk_unordered(s_val, e_val) ==
    0 <= s_val /\ s_val <= ExclusionMax /\ 0 <= e_val /\ e_val <= ExclusionMax

\* if not (0 <= s_val <= e_val <= 0xFFFF)
ExclusionRangeOk(s_val, e_val) == 0 <= s_val /\ s_val <= e_val /\ e_val <= ExclusionMax

\* exclusions[family].append(r) on a defaultdict(list)
AppendExclusion(excl, fam, r) ==
    IF \E i \in 1..Len(excl) : excl[i].family = fam
    THEN [i \in 1..Len(excl) |->
            IF excl[i].family = fam
            THEN [excl[i] EXCEPT !.ranges = Append(@, r)]
            ELSE excl[i]]
    ELSE Append(excl, [family |-> fam, ranges |-> <<r>>])

\* exclusion.<family>.<index>
HandleExclusion(ps, ln, key, value) ==
    IF ~HasDash(value)
    THEN err(ps, LineErr(ln, "exclusion range must be start-end hex"))
    ELSE LET s_hex == DashSplit(value)[1]
             e_hex == DashSplit(value)[2]
         IN  IF ~(IsHex(s_hex) /\ IsHex(e_hex))
             THEN err(ps, LineErr(ln, "exclusion range parts must be hex"))
             ELSE IF ~ExclusionRangeOk(BaseVal(s_hex, 16), BaseVal(e_hex, 16))
             THEN err(ps, LineErr(ln, "exclusion range must satisfy 0x0000 <= start <= end <= 0xFFFF"))
             ELSE [ps EXCEPT !.exclusions =
                      AppendExclusion(@, key.fam,
                          [start |-> BaseVal(s_hex, 16), end |-> BaseVal(e_hex, 16),
                           line |-> ln])]

\* for fl in flags: if fl not in FLAGS: err(...)
RECURSIVE FlagErrors(_, _, _, _)
FlagErrors(ps, ln, key, flags) ==
    IF flags = <<>> THEN ps
    ELSE FlagErrors(
            IF Head(flags) \notin FLAGS
            THEN err(ps, Diag(ln, "Unknown flag", key.fam, IndexOf(key), <<>>))
            ELSE ps,
            ln, key, Tail(flags))

\* the duplicate reported and then recorded over the first definition
HandleFontDef_overwrite(ps, ln, key, value) ==
    LET parts == Parts(value) IN
    IF Len(parts) < 2
    THEN err(ps, LineErr(ln, "FontDefinition requires at least FontName,CHARSET"))
    ELSE
      LET flags == SubSeq(parts, 3, Len(parts))
          p1 == FlagErrors(ps, ln, key, flags)
          p2 == IF parts[2] \notin CHARSETS
                THEN err(p1, Diag(ln, "Unknown charset", key.fam, IndexOf(key), <<>>))
                ELSE p1
          p3 == IF HasSlot(p2.font_defs, key.fam, IndexOf(key))
                THEN err(p2, Diag(ln, "Duplicate FontDefinition", key.fam, IndexOf(key),
                                  <<Slot(p2.font_defs, key.fam, IndexOf(key)).line>>))
                ELSE p2
      IN  [p3 EXCEPT !.font_defs = PutSlot(@,
                [family |-> key.fam, index |-> IndexOf(key), font |-> parts[1],
                 charset |-> parts[2],
                 needsConverted |-> \E i \in 1..Len(flags) : flags[i] = "NEED_CONVERTED",
                 line |-> ln])]

\* <family>.<index> = FontName,CHARSET[,NEED_CONVERTED]
HandleFontDef(ps, ln, key, value) ==
    LET parts == Parts(value) IN
    IF Len(parts) < 2
    THEN err(ps, LineErr(ln, "FontDefinition requires at least FontName,CHARSET"))
    ELSE
      LET font_name == parts[1]
          charset == parts[2]
          flags == SubSeq(parts, 3, Len(parts))
          p1 == FlagErrors(ps, ln, key, flags)
          p2 == IF charset \notin CHARSETS
                THEN err(p1, Diag(ln, "Unknown charset", key.fam, IndexOf(key), <<>>))
                ELSE p1
      IN  IF HasSlot(p2.font_defs, key.fam, IndexOf(key))
          THEN err(p2, Diag(ln, "Duplicate FontDefinition", key.fam, IndexOf(key),
                            <<Slot(p2.font_defs, key.fam, IndexOf(key)).line>>))
          ELSE [p2 EXCEPT !.font_defs = Append(@,
                    [family |-> key.fam, index |-> IndexOf(key), font |-> font_name,
                     charset |-> charset,
                     needsConverted |-> \E i \in 1..Len(flags) : flags[i] = "NEED_CONVERTED",
                     line |-> ln])]

\* the unknown key let through
HandleUnknown_silent(ps, ln) == ps

\* err(ln, f"Unknown key: {key}")
HandleUnknown(ps, ln) == err(ps, LineErr(ln, "Unknown key"))

\* One iteration of the loop; arith says whether the program pre-evaluates
\* arithmetic (the interpreter does, the lab4 analyser does not).
ProcessLine(ps, ln, raw, arith) ==
    IF raw.shape \in {"blank", "comment"} THEN ps
    ELSE
      LET line == IF arith THEN evaluate_key_arithmetic(raw) ELSE raw IN
      IF line.shape = "noeq"
      THEN err(ps, LineErr(ln, "Expected key=value"))
      ELSE
        LET key == line.key
            value == IF arith THEN evaluate_arithmetic_value(line.value) ELSE line.value
            p1 == NoteKey(ps, ln, key)
        IN  CASE key = KeyDefaultChar -> HandleDefaultChar(p1, ln, value)
              [] key = KeyInputTextCharset -> HandleInputTextCharset(p1, ln, value)
              [] MatchesIndexed(key, "fontcharset") -> HandleFontCharset(p1, ln, key, value)
              [] MatchesIndexed(key, "exclusion") -> HandleExclusion(p1, ln, key, value)
              [] MatchesIndexed(key, "") -> HandleFontDef(p1, ln, key, value)
              [] OTHER -> HandleUnknown(p1, ln)

(***************************************************************************)
(* parse_properties: the semantic checks after the loop.                   *)
(***************************************************************************)
\* list(range(lo, hi + 1)) filtered by keep, ascending
RECURSIVE RangeFilter(_, _, _)
RangeFilter(lo, hi, keep) ==
    IF lo > hi THEN <<>>
    ELSE (IF lo \in keep THEN <<lo>> ELSE <<>>) \o RangeFilter(lo + 1, hi, keep)

SetMin(S) == CHOOSE x \in S : \A y \in S : x <= y
SetMax(S) == CHOOSE x \in S : \A y \in S : y <= x

\* the presence check without inputtextcharset
MissingGlobals_defaultOnly(gl) ==
    IF gl.defaultChar = None
    THEN <<LineErr(0, "Global: default.char is missing")>> ELSE <<>>

\* 1) Presence of globals
MissingGlobals(gl) ==
    (IF gl.defaultChar = None
     THEN <<LineErr(0, "Global: default.char is missing")>> ELSE <<>>)
    \o (IF gl.inputTextCharset = None
        THEN <<LineErr(0, "Global: inputtextcharset is missing")>> ELSE <<>>)

\* by_family: the families of font_defs in order of first appearance
RECURSIVE FamilyOrder(_, _)
FamilyOrder(defs, seen) ==
    IF defs = <<>> THEN <<>>
    ELSE IF Head(defs).family \in seen THEN FamilyOrder(Tail(defs), seen)
    ELSE <<Head(defs).family>> \o FamilyOrder(Tail(defs), seen \cup {Head(defs).family})

IndicesOf(defs, fam) == {defs[i].index : i \in {j \in 1..Len(defs) : defs[j].family = fam}}

\* contiguity without the check that the indices start at 0
ContiguityErrors_anyStart(fam, idxs) ==
    LET lo == SetMin(idxs)
        hi == SetMax(idxs)
        missing == RangeFilter(lo, hi, (lo..hi) \ idxs)
    IN  IF missing # <<>>
        THEN <<Diag(0, "indices not contiguous", fam, 0, missing)>> ELSE <<>>

\* 2) contiguity of one family's index set idxs (non-empty)
ContiguityErrors(fam, idxs) ==
    LET lo == SetMin(idxs)
        hi == SetMax(idxs)
        missing == RangeFilter(lo, hi, (lo..hi) \ idxs)
    IN  (IF lo # 0
         THEN <<Diag(0, "indices must start at 0", fam, lo, <<>>)>> ELSE <<>>)
        \o (IF missing # <<>>
            THEN <<Diag(0, "indices not contiguous", fam, 0, missing)>> ELSE <<>>)

RECURSIVE AllContiguityErrors(_, _)
AllContiguityErrors(fams, defs) ==
    IF fams = <<>> THEN <<>>
    ELSE ContiguityErrors(Head(fams), IndicesOf(defs, Head(fams)))
         \o AllContiguityErrors(Tail(fams), defs)

\* the constraints without the check of the fontcharset registration
NeedConvertedErrors_unchecked(rec, fcs) ==
    IF rec.needsConverted /\ rec.charset # "SYMBOL_CHARSET"
    THEN <<Diag(rec.line, "NEED_CONVERTED used with non-symbol charset",
                rec.family, rec.index, <<>>)>>
    ELSE <<>>

\* the constraints with the unused registration reported as an error
NeedConvertedErrors_strict(rec, fcs) ==
    (IF rec.needsConverted /\ rec.charset # "SYMBOL_CHARSET"
     THEN <<Diag(rec.line, "NEED_CONVERTED used with non-symbol charset",
                 rec.family, rec.index, <<>>)>>
     ELSE <<>>)
    \o (IF rec.charset = "SYMBOL_CHARSET" /\ rec.needsConverted
           /\ ~HasSlot(fcs, rec.family, rec.index)
        THEN <<Diag(rec.line, "Missing fontcharset for SYMBOL_CHARSET with NEED_CONVERTED",
                    rec.family, rec.index, <<>>)>>
        ELSE <<>>)
    \o (IF HasSlot(fcs, rec.family, rec.index) /\ ~rec.needsConverted
           /\ rec.charset = "SYMBOL_CHARSET"
        THEN <<Diag(Slot(fcs, rec.family, rec.index).line,
                    "fontcharset present but NEED_CONVERTED not set",
                    rec.family, rec.index, <<>>)>>
        ELSE <<>>)

\* 3) NEED_CONVERTED constraints of one font definition: its errors
NeedConvertedErrors(rec, fcs) ==
    (IF rec.needsConverted /\ rec.charset # "SYMBOL_CHARSET"
     THEN <<Diag(rec.line, "NEED_CONVERTED used with non-symbol charset",
                 rec.family, rec.index, <<>>)>>
     ELSE <<>>)
    \o (IF rec.charset = "SYMBOL_CHARSET" /\ rec.needsConverted
           /\ ~HasSlot(fcs, rec.family, rec.index)
        THEN <<Diag(rec.line, "Missing fontcharset for SYMBOL_CHARSET with NEED_CONVERTED",
                    rec.family, rec.index, <<>>)>>
        ELSE <<>>)

\* 3) ... and its warning
NeedConvertedWarnings(rec, fcs) ==
    IF HasSlot(fcs, rec.family, rec.index) /\ ~rec.needsConverted
       /\ rec.charset = "SYMBOL_CHARSET"
    THEN <<Diag(Slot(fcs, rec.family, rec.index).line,
                "fontcharset present but NEED_CONVERTED not set",
                rec.family, rec.index, <<>>)>>
    ELSE <<>>

RECURSIVE AllNeedConvertedErrors(_, _)
AllNeedConvertedErrors(defs, fcs) ==
    IF defs = <<>> THEN <<>>
    ELSE NeedConvertedErrors(Head(defs), fcs) \o AllNeedConvertedErrors(Tail(defs), fcs)

RECURSIVE AllNeedConvertedWarnings(_, _)
AllNeedConvertedWarnings(defs, fcs) ==
    IF defs = <<>> THEN <<>>
    ELSE NeedConvertedWarnings(Head(defs), fcs) \o AllNeedConvertedWarnings(Tail(defs), fcs)

\* 4) fontcharset entries that refer to unknown definitions
RECURSIVE DanglingWarnings(_, _)
DanglingWarnings(fcs, defs) ==
    IF fcs = <<>> THEN <<>>
    ELSE (IF ~HasSlot(defs, Head(fcs).family, Head(fcs).index)
          THEN <<Diag(Head(fcs).line, "fontcharset has no matching FontDefinition",
                      Head(fcs).family, Head(fcs).index, <<>>)>>
          ELSE <<>>)
         \o DanglingWarnings(Tail(fcs), defs)

SemanticChecks(ps) ==
    [ps EXCEPT
        !.errors = @ \o MissingGlobals(ps.globals_)
                     \o AllContiguityErrors(FamilyOrder(ps.font_defs, {}), ps.font_defs)
                     \o AllNeedConvertedErrors(ps.font_defs, ps.fontcharset),
        !.warnings = @ \o AllNeedConvertedWarnings(ps.font_defs, ps.fontcharset)
                       \o DanglingWarnings(ps.fontcharset, ps.font_defs)]

\* parse_properties on a whole file
RECURSIVE ParseLines(_, _, _, _)
ParseLines(ps, ln, rest, arith) ==
    IF rest = <<>> THEN ps
    ELSE ParseLines(ProcessLine(ps, ln, Head(rest), arith), ln + 1, Tail(rest), arith)

parse_properties(file, arith) == SemanticChecks(ParseLines(NewParse, 1, file, arith))

(***************************************************************************)
(* build_normalized                                                        *)
(***************************************************************************)
\* sorted(seq, key=...) : Python's stable sort; lt[i, j] says that the key of
\* seq[i] is less than the key of seq[j]
SortedBy(seq, lt) ==
    LET n == Len(seq)
        pos(i) == 1 + Cardinality({j \in 1..n : lt[j, i] \/ (~lt[i, j] /\ j < i)})
    IN  [k \in 1..n |-> seq[CHOOSE i \in 1..n : pos(i) = k]]

IndexLt(r1, r2) == r1.index < r2.index

\* key=lambda x: (x["start"], x["end"])
RangeLt(r1, r2) ==
    r1.start < r2.start \/ (r1.start = r2.start /\ r1.end < r2.end)

\* the entries left in insertion order
SortEntries_unsorted(entries) == entries

\* sorted(entries, key=lambda r: r["index"])
SortEntries(entries) ==
    SortedBy(entries, [i \in 1..Len(entries), j \in 1..Len(entries) |->
                          IndexLt(entries[i], entries[j])])

\* sorted(ranges, key=lambda x: (x["start"], x["end"]))
SortRanges(ranges) ==
    SortedBy(ranges, [i \in 1..Len(ranges), j \in 1..Len(ranges) |->
                         RangeLt(ranges[i], ranges[j])])

SelectFamily(defs, fam) == SelectSeq(defs, LAMBDA r : r.family = fam)

\* the registration looked up by index alone
NormalEntry_byIndex(r, fam, fcs) ==
    [index |-> r.index, font |-> r.font, charset |-> r.charset,
     needsConverted |-> r.needsConverted,
     converterClass |->
        IF r.charset = "SYMBOL_CHARSET" /\ \E i \in 1..Len(fcs) : fcs[i].index = r.index
        THEN Some(fcs[CHOOSE i \in 1..Len(fcs) :
                        /\ fcs[i].index = r.index
                        /\ \A j \in 1..(i - 1) : fcs[j].index # r.index].class)
        ELSE None]

\* the registration attached whatever the charset
NormalEntry_anyCharset(r, fam, fcs) ==
    [index |-> r.index, font |-> r.font, charset |-> r.charset,
     needsConverted |-> r.needsConverted,
     converterClass |->
        IF HasSlot(fcs, fam, r.index) THEN Some(Slot(fcs, fam, r.index).class) ELSE None]

\* One normalized entry.  The code sets "converterClass" only on
\* SYMBOL_CHARSET entries and every reader uses e.get("converterClass"), so a
\* missing key and None are both None here.
NormalEntry(r, fam, fcs) ==
    [index |-> r.index, font |-> r.font, charset |-> r.charset,
     needsConverted |-> r.needsConverted,
     converterClass |->
        IF r.charset = "SYMBOL_CHARSET" /\ HasSlot(fcs, fam, r.index)
        THEN Some(Slot(fcs, fam, r.index).class)
        ELSE None]

NormalFamilies(defs, fcs) ==
    [fam \in {defs[i].family : i \in 1..Len(defs)} |->
        LET sorted == SortEntries(SelectFamily(defs, fam))
        IN  [k \in 1..Len(sorted) |-> NormalEntry(sorted[k], fam, fcs)]]

\* the loop without the test of "seen"
RECURSIVE Dedupe_keepAll(_, _)
Dedupe_keepAll(ranges, seen) ==
    IF ranges = <<>> THEN <<>>
    ELSE <<[start |-> Head(ranges).start, end |-> Head(ranges).end]>>
         \o Dedupe_keepAll(Tail(ranges), seen)

\* the sort & dedupe loop: the first range of each (start, end) is kept
RECURSIVE Dedupe(_, _)
Dedupe(ranges, seen) ==
    IF ranges = <<>> THEN <<>>
    ELSE LET key == <<Head(ranges).start, Head(ranges).end>> IN
         IF key \in seen THEN Dedupe(Tail(ranges), seen)
         ELSE <<[start |-> Head(ranges).start, end |-> Head(ranges).end]>>
              \o Dedupe(Tail(ranges), seen \cup {key})

NormalRanges(ranges) == Dedupe(SortRanges(ranges), {})

NormalExclusions(excl) ==
    LET kept == SelectSeq(excl, LAMBDA x : x.ranges # <<>>)
    IN  [fam \in {kept[i].family : i \in 1..Len(kept)} |->
            NormalRanges((CHOOSE x \in {kept[i] : i \in 1..Len(kept)} : x.family = fam).ranges)]

build_normalized(defs, fcs, excl, gl) ==
    [families |-> NormalFamilies(defs, fcs),
     ex_norm |-> NormalExclusions(excl),
     g |-> [defaultChar |-> gl.defaultChar, inputTextCharset |-> gl.inputTextCharset]]

(***************************************************************************)
(* choose_font                                                             *)
(***************************************************************************)
\* dict.get(key, default)
Get(map, key, default) == IF key \in DOMAIN map THEN map[key] ELSE default

\* is_excluded with the end of a range left out of it
is_excluded_open(cp, ex_ranges) ==
    \E i \in 1..Len(ex_ranges) : ex_ranges[i].start <= cp /\ cp < ex_ranges[i].end

is_excluded(cp, ex_ranges) ==
    \E i \in 1..Len(ex_ranges) : ex_ranges[i].start <= cp /\ cp <= ex_ranges[i].end

\* the Ansi range without its last code point
AnsiCovers_open(cp) == cp < AnsiMax

\* if codepoint <= 0x00FF
AnsiCovers(cp) == cp <= AnsiMax

\* the test of the converter class alone
SymbolUsable_classOnly(e) ==
    e.converterClass # None /\ e.converterClass[1].t # "empty"

\* if e.get("needsConverted") and e.get("converterClass")
SymbolUsable(e) ==
    e.needsConverted /\ e.converterClass # None /\ e.converterClass[1].t # "empty"

Msg(status, family, cp, font, charset, nc, cc, dflt, reason) ==
    [status |-> status, family |-> family, codepoint |-> cp, font |-> font,
     charset |-> charset, needsConverted |-> nc, converterClass |-> cc,
     fallbackDefaultChar |-> dflt, reason |-> reason]

Check(what, e) == [text |-> what, font |-> e.font, index |-> e.index]
Skipped == [text |-> "  skipped: NEED_CONVERTED or converterClass missing",
            font |-> "", index |-> 0]

\* the fallback carrying a fixed character instead of the model's
Fallback_fixedChar(family, cp, gl) ==
    Msg("fallback", family, cp, None, None, None, None, Some(65), "no matching entry")

\* "Nothing matched: default fallback"
Fallback(family, cp, gl) ==
    Msg("fallback", family, cp, None, None, None, None, gl.defaultChar, "no matching entry")

\* the loop going on after a match, so that the last match wins
RECURSIVE ScanEntries_lastWins(_, _, _, _, _)
ScanEntries_lastWins(entries, family, cp, gl, tr) ==
    IF entries = <<>>
    THEN [msg |-> Fallback(family, cp, gl),
          trace |-> tr]
    ELSE
      LET e == Head(entries)
          what == IF e.charset = "ANSI_CHARSET" THEN "Check ANSI" ELSE "Check SYMBOL"
          t1 == Append(tr, Check(what, e))
          hit == (e.charset = "ANSI_CHARSET" /\ AnsiCovers(cp))
                 \/ (e.charset = "SYMBOL_CHARSET" /\ SymbolUsable(e))
          rest == ScanEntries_lastWins(Tail(entries), family, cp, gl,
                                       IF hit THEN t1 ELSE Append(t1, Skipped))
      IN  IF hit /\ rest.msg.status # "ok"
          THEN [msg |-> Msg("ok", family, cp, Some(e.font), Some(e.charset),
                            Some(e.charset = "SYMBOL_CHARSET"),
                            IF e.charset = "SYMBOL_CHARSET" THEN e.converterClass ELSE None,
                            None, ""),
                trace |-> rest.trace]
          ELSE rest

\* "for e in fam_entries" and the fallback after it
RECURSIVE ScanEntries(_, _, _, _, _)
ScanEntries(entries, family, cp, gl, tr) ==
    IF entries = <<>>
    THEN [msg |-> Fallback(family, cp, gl),
          trace |-> tr]
    ELSE
      LET e == Head(entries) IN
      CASE e.charset = "ANSI_CHARSET" ->
             LET t1 == Append(tr, Check("Check ANSI", e)) IN
             IF AnsiCovers(cp)
             THEN [msg |-> Msg("ok", family, cp, Some(e.font), Some(e.charset),
                               Some(FALSE), None, None, ""),
                   trace |-> t1]
             ELSE ScanEntries(Tail(entries), family, cp, gl, t1)
        [] e.charset = "SYMBOL_CHARSET" ->
             LET t1 == Append(tr, Check("Check SYMBOL", e)) IN
             IF SymbolUsable(e)
             THEN [msg |-> Msg("ok", family, cp, Some(e.font), Some(e.charset),
                               Some(TRUE), e.converterClass, None, ""),
                   trace |-> t1]
             ELSE ScanEntries(Tail(entries), family, cp, gl, Append(t1, Skipped))
        [] OTHER -> ScanEntries(Tail(entries), family, cp, gl, tr)

choose_font(fams, excl, gl, family, codepoint, explain) ==
    LET fam_entries == Get(fams, family, <<>>)
        ex_ranges == Get(excl, family, <<>>)
    IN  IF is_excluded(codepoint, ex_ranges)
        THEN [msg |-> Msg("excluded", family, codepoint, None, None, None, None,
                          gl.defaultChar, "codepoint is in family exclusion range"),
              trace |-> <<>>]
        ELSE ScanEntries(fam_entries, family, codepoint, gl, <<>>)

(***************************************************************************)
(* Inputs.                                                                 *)
(***************************************************************************)
FontDefLine(fam, idx, parts) == KV(Key("", fam, idx, FALSE), VList(parts))
FontCharsetLine(fam, idx, value) == KV(Key("fontcharset", fam, idx, FALSE), value)
ExclusionLine(fam, idx, s, e) == KV(Key("exclusion", fam, idx, FALSE), VRange(s, e))

DefaultChar65 == KV(KeyDefaultChar, VInt(FALSE, <<6, 5>>))
InputAnsi == KV(KeyInputTextCharset, VWord("ANSI_CHARSET"))

\* Lines of the validation runs
Pool ==
    { DefaultChar65,
      InputAnsi,
      FontDefLine("dialog", <<0>>, <<"Arial", "ANSI_CHARSET">>),
      FontDefLine("dialog", <<1>>, <<"Symbol", "SYMBOL_CHARSET", "NEED_CONVERTED">>),
      FontDefLine("dialog", <<3>>, <<"Times", "ANSI_CHARSET">>),
      FontDefLine("serif", <<1>>, <<"Courier", "ANSI_CHARSET">>),
      FontCharsetLine("dialog", <<1>>, VWord("ConvA")),
      FontCharsetLine("dialog", <<1>>, VEmpty),
      FontCharsetLine("serif", <<0>>, VWord("ConvB")),
      NoEq,
      Comment }

\* Lines of the exclusion runs
\*   0041-0050  0041-0050 (index 1)  0020-0060  0041-0045  0041-0050 (serif)
\*   0100-00FF  20-10  10-20  FFFF-10000
PoolExclusion ==
    { DefaultChar65,
      InputAnsi,
      ExclusionLine("dialog", <<0>>, <<0, 0, 4, 1>>, <<0, 0, 5, 0>>),
      ExclusionLine("dialog", <<1>>, <<0, 0, 4, 1>>, <<0, 0, 5, 0>>),
      ExclusionLine("dialog", <<0>>, <<0, 0, 2, 0>>, <<0, 0, 6, 0>>),
      ExclusionLine("dialog", <<0>>, <<0, 0, 4, 1>>, <<0, 0, 4, 5>>),
      ExclusionLine("serif", <<0>>, <<0, 0, 4, 1>>, <<0, 0, 5, 0>>),
      ExclusionLine("serif", <<0>>, <<0, 1, 0, 0>>, <<0, 0, 15, 15>>),
      ExclusionLine("dialog", <<0>>, <<2, 0>>, <<1, 0>>),
      ExclusionLine("dialog", <<0>>, <<1, 0>>, <<2, 0>>),
      ExclusionLine("dialog", <<0>>, <<15, 15, 15, 15>>, <<1, 0, 0, 0, 0>>) }

\* Lines of the resolution runs
PoolResolve ==
    { DefaultChar65,
      KV(KeyDefaultChar, VInt(FALSE, <<6, 3>>)),
      InputAnsi,
      FontDefLine("dialog", <<0>>, <<"Arial", "ANSI_CHARSET">>),
      FontDefLine("dialog", <<0>>, <<"Wingdings", "SYMBOL_CHARSET">>),
      FontDefLine("dialog", <<0>>, <<"Webdings", "SYMBOL_CHARSET", "NEED_CONVERTED">>),
      FontDefLine("dialog", <<1>>, <<"Symbol", "SYMBOL_CHARSET", "NEED_CONVERTED">>),
      FontDefLine("dialog", <<1>>, <<"Times", "ANSI_CHARSET">>),
      FontDefLine("dialog", <<2>>, <<"Courier", "ANSI_CHARSET">>),
      FontCharsetLine("dialog", <<0>>, VWord("ConvA")),
      FontCharsetLine("dialog", <<1>>, VWord("ConvB")),
      ExclusionLine("dialog", <<0>>, <<0, 0, 4, 1>>, <<0, 0, 5, 0>>) }

\* Lines of the key runs
\*   dialog.0=Arial,ANSI_CHARSET   dialog.(0)=Times,ANSI_CHARSET
\*   dialog.00=Courier,ANSI_CHARSET   dialog.0=Arial
\*   exclusion.dialog.0=0041-0050   exclusion.dialog=0041-0050
\*   exclusion.0=Arial,ANSI_CHARSET   foo=x   a line without "="
PoolKeys ==
    { DefaultChar65,
      InputAnsi,
      FontDefLine("dialog", <<0>>, <<"Arial", "ANSI_CHARSET">>),
      KV(Key("", "dialog", <<0>>, TRUE), VList(<<"Times", "ANSI_CHARSET">>)),
      FontDefLine("dialog", <<0, 0>>, <<"Courier", "ANSI_CHARSET">>),
      KV(Key("", "dialog", <<0>>, FALSE), VWord("Arial")),
      ExclusionLine("dialog", <<0>>, <<0, 0, 4, 1>>, <<0, 0, 5, 0>>),
      KV(Key("exclusion", "dialog", <<>>, FALSE), VRange(<<0, 0, 4, 1>>, <<0, 0, 5, 0>>)),
      FontDefLine("exclusion", <<0>>, <<"Arial", "ANSI_CHARSET">>),
      KV(KeyUnknown, VWord("x")),
      NoEq }

\* Lines of the flag runs
\*   dialog.0=Arial,ANSI_CHARSET,NEED_CONVERTED
\*   dialog.0=Courier,OEM_CHARSET,NEED_CONVERTED
\*   dialog.0=Wingdings,SYMBOL_CHARSET
\*   dialog.0=Webdings,SYMBOL_CHARSET,NEED_CONVERTED
\*   fontcharset.dialog.0=ConvA   fontcharset.dialog.00=ConvB
\*   fontcharset.serif.0=ConvC   dialog.0=Times,ANSI_CHARSET
PoolFlags ==
    { DefaultChar65,
      InputAnsi,
      FontDefLine("dialog", <<0>>, <<"Times", "ANSI_CHARSET">>),
      FontDefLine("dialog", <<0>>, <<"Arial", "ANSI_CHARSET", "NEED_CONVERTED">>),
      FontDefLine("dialog", <<0>>, <<"Courier", "OEM_CHARSET", "NEED_CONVERTED">>),
      FontDefLine("dialog", <<0>>, <<"Wingdings", "SYMBOL_CHARSET">>),
      FontDefLine("dialog", <<0>>, <<"Webdings", "SYMBOL_CHARSET", "NEED_CONVERTED">>),
      FontCharsetLine("dialog", <<0>>, VWord("ConvA")),
      FontCharsetLine("dialog", <<0, 0>>, VWord("ConvB")),
      FontCharsetLine("serif", <<0>>, VWord("ConvC")) }

\* Lines of the global runs
\*   default.char=65  =1114111  =1114112  =-5  =70-5  =abc  =(empty)
\*   inputtextcharset=ANSI_CHARSET  =SYMBOL_CHARSET  =OEM_CHARSET
\*   dialog.0=Arial,ANSI_CHARSET
PoolGlobals ==
    { DefaultChar65,
      KV(KeyDefaultChar, VInt(FALSE, <<1, 1, 1, 4, 1, 1, 1>>)),
      KV(KeyDefaultChar, VInt(FALSE, <<1, 1, 1, 4, 1, 1, 2>>)),
      KV(KeyDefaultChar, VInt(TRUE, <<5>>)),
      KV(KeyDefaultChar, VRange(<<7, 0>>, <<5>>)),
      KV(KeyDefaultChar, VWord("abc")),
      KV(KeyDefaultChar, VEmpty),
      InputAnsi,
      KV(KeyInputTextCharset, VWord("SYMBOL_CHARSET")),
      KV(KeyInputTextCharset, VWord("OEM_CHARSET")),
      FontDefLine("dialog", <<0>>, <<"Arial", "ANSI_CHARSET">>) }

\* Arguments of "interp": --family, --cp, --explain
QueryFamilies == {"dialog", "serif"}
CodePoints == {0, 65, 80, 81, 255, 256}

(***************************************************************************)
(* The run: parse_properties, the gate on errors, build_normalized, then   *)
(* print_normalized (cmd_normalize, lab4 main) or choose_font (cmd_interp).*)
(***************************************************************************)
\* before build_normalized and choose_font have run
EmptyMap == [fam \in {} |-> <<>>]
NoGlobals == [defaultChar |-> None, inputTextCharset |-> None]
NoResult == [status |-> "none", family |-> "", codepoint |-> 0, font |-> None,
             charset |-> None, needsConverted |-> None, converterClass |-> None,
             fallbackDefaultChar |-> None, reason |-> ""]
NoQuery == [family |-> "", codepoint |-> 0, explain |-> FALSE]

ParseState ==
    [errors |-> errors, warnings |-> warnings, font_defs |-> font_defs,
     fontcharset |-> fontcharset, exclusions |-> exclusions, seen_keys |-> seen_keys,
     globals_ |-> globals_]

SetParseState(ps) ==
    /\ errors' = ps.errors
    /\ warnings' = ps.warnings
    /\ font_defs' = ps.font_defs
    /\ fontcharset' = ps.fontcharset
    /\ exclusions' = ps.exclusions
    /\ seen_keys' = ps.seen_keys
    /\ globals_' = ps.globals_

InitOf(progs) ==
    /\ prog \in progs
    /\ pc = "parse"
    /\ lines = <<>>
    /\ errors = NewParse.errors
    /\ warnings = NewParse.warnings
    /\ font_defs = NewParse.font_defs
    /\ fontcharset = NewParse.fontcharset
    /\ exclusions = NewParse.exclusions
    /\ seen_keys = NewParse.seen_keys
    /\ globals_ = NewParse.globals_
    /\ families = EmptyMap
    /\ ex_norm = EmptyMap
    /\ g = NoGlobals
    /\ query = NoQuery
    /\ result = NoResult
    /\ trace = <<>>

\* The file is read in full before the loop, and the loop never looks ahead:
\* each line is drawn when the loop reaches it.
ParseLine(pool, repeats, max) ==
    /\ pc = "parse"
    /\ Len(lines) < max
    /\ \E raw \in pool :
        /\ ~repeats => \A i \in 1..Len(lines) : lines[i] # raw
        /\ lines' = Append(lines, raw)
        /\ SetParseState(ProcessLine(ParseState, Len(lines) + 1, raw, prog = "interpreter"))
    /\ UNCHANGED <<prog, pc, families, ex_norm, g, query, result, trace>>

\* End of the file: the semantic checks, and parse_properties returns.
EndOfFile ==
    /\ pc = "parse"
    /\ SetParseState(SemanticChecks(ParseState))
    /\ pc' = "parsed"
    /\ UNCHANGED <<prog, lines, families, ex_norm, g, query, result, trace>>

\* the gate closing on warnings too
Aborts_onWarnings(errs, warns) == errs # <<>> \/ warns # <<>>

\* "if errors:"
Aborts(errs, warns) == errs # <<>>

\* sys.exit(1)
Exit1 ==
    /\ pc = "parsed"
    /\ Aborts(errors, warnings)
    /\ pc' = "exit1"
    /\ UNCHANGED <<prog, lines, errors, warnings, font_defs, fontcharset, exclusions,
                   globals_, seen_keys, families, ex_norm, g, query, result, trace>>

Normalize ==
    /\ pc = "parsed"
    /\ ~Aborts(errors, warnings)
    /\ LET n == build_normalized(font_defs, fontcharset, exclusions, globals_) IN
        /\ families' = n.families
        /\ ex_norm' = n.ex_norm
        /\ g' = n.g
    /\ pc' = "normalized"
    /\ UNCHANGED <<prog, lines, errors, warnings, font_defs, fontcharset, exclusions,
                   globals_, seen_keys, query, result, trace>>

\* cmd_normalize and the lab4 main: print_normalized
PrintNormalized ==
    /\ pc = "normalized"
    /\ pc' = "printed"
    /\ UNCHANGED <<prog, lines, errors, warnings, font_defs, fontcharset, exclusions,
                   globals_, seen_keys, families, ex_norm, g, query, result, trace>>

\* cmd_interp: choose_font
Interp ==
    /\ pc = "normalized"
    /\ prog = "interpreter"
    /\ \E family \in QueryFamilies, cp \in CodePoints, explain \in BOOLEAN :
        LET r == choose_font(families, ex_norm, g, family, cp, explain) IN
        /\ query' = [family |-> family, codepoint |-> cp, explain |-> explain]
        /\ result' = r.msg
        /\ trace' = r.trace
    /\ pc' = "resolved"
    /\ UNCHANGED <<prog, lines, errors, warnings, font_defs, fontcharset, exclusions,
                   globals_, seen_keys, families, ex_norm, g>>

NextOf(pool, repeats, max) ==
    \/ ParseLine(pool, repeats, max)
    \/ EndOfFile
    \/ Exit1
    \/ Normalize
    \/ PrintNormalized
    \/ Interp

\* Validation runs of both programs
Init == InitOf({"interpreter", "lab4"})
Next == NextOf(Pool, TRUE, MaxLines)
Spec == Init /\ [][Next]_vars

\* Exclusion runs of both programs
NextExclusion == NextOf(PoolExclusion, TRUE, MaxLines)
SpecExclusion == Init /\ [][NextExclusion]_vars

\* Key runs of both programs
NextKeys == NextOf(PoolKeys, TRUE, MaxLines)
SpecKeys == Init /\ [][NextKeys]_vars

\* Flag runs of both programs; a line is not repeated
NextFlags == NextOf(PoolFlags, FALSE, MaxLinesResolve)
SpecFlags == Init /\ [][NextFlags]_vars

\* Global runs of both programs; a line is not repeated
NextGlobals == NextOf(PoolGlobals, FALSE, MaxLines)
SpecGlobals == Init /\ [][NextGlobals]_vars

\* Resolution runs of the interpreter; a line is not repeated (a repeated
\* line other than an exclusion is a Duplicate key error)
InitResolve == InitOf({"interpreter"})
NextResolve == NextOf(PoolResolve, FALSE, MaxLinesResolve)
SpecResolve == InitResolve /\ [][NextResolve]_vars

(***************************************************************************)
(* Vocabulary of the properties.                                           *)
(***************************************************************************)
AfterParse == pc # "parse"
Normalized == pc \in {"normalized", "printed", "resolved"}

\* the key of a raw line as the running program reads it
KeyRead(raw) == IF prog = "interpreter" THEN evaluate_key_arithmetic(raw).key ELSE raw.key

IsFontDefLine(raw) == raw.shape = "kv" /\ MatchesIndexed(KeyRead(raw), "")

\* the accepted exclusion ranges of a family, as (start, end) pairs
AcceptedRanges(fam) ==
    UNION {{<<x.ranges[k].start, x.ranges[k].end>> : k \in 1..Len(x.ranges)} :
             x \in {y \in {exclusions[i] : i \in 1..Len(exclusions)} : y.family = fam}}

DeclaredExcluded(fam, cp) == \E r \in AcceptedRanges(fam) : r[1] <= cp /\ cp <= r[2]

EntriesOf(fam) == IF fam \in DOMAIN families THEN families[fam] ELSE <<>>

(***************************************************************************)
(* C1: a code point inside an exclusion range of the queried family is     *)
(* always resolved as "excluded", whatever entries the family has.         *)
(***************************************************************************)
C1_ExclusionPrecedence ==
    (pc = "resolved" /\ DeclaredExcluded(query.family, query.codepoint))
        => result.status = "excluded"

\* an excluded code point, queried at the inclusive end of its range, in a
\* family whose registered Symbol entry would have matched it
C1_Witness ==
    /\ pc = "resolved"
    /\ result.status = "excluded"
    /\ \E r \in AcceptedRanges(query.family) : r[2] = query.codepoint
    /\ \E i \in 1..Len(EntriesOf(query.family)) :
          /\ EntriesOf(query.family)[i].charset = "SYMBOL_CHARSET"
          /\ EntriesOf(query.family)[i].needsConverted
          /\ EntriesOf(query.family)[i].converterClass # None

(***************************************************************************)
(* C2: normalization and resolution are reached only with an empty errors  *)
(* list; a run with errors ends at exit 1 before normalization; warnings   *)
(* alone never end the run.                                                *)
(***************************************************************************)
C2_Gate ==
    /\ Normalized => errors = <<>>
    /\ pc = "exit1" => errors # <<>>
    /\ ~Normalized => (families = EmptyMap /\ ex_norm = EmptyMap /\ g = NoGlobals)
    /\ pc # "resolved" => result = NoResult

\* a run that has warnings and was normalized
C2_Witness == pc = "normalized" /\ warnings # <<>> /\ g # NoGlobals

(***************************************************************************)
(* C3: a family whose only entry is an Ansi entry at index 0 resolves a    *)
(* code point that is not excluded to "ok" in 0..0xFF and to "fallback"    *)
(* above 0xFF.                                                             *)
(***************************************************************************)
OnlyAnsiAtZero(fam) ==
    /\ Len(EntriesOf(fam)) = 1
    /\ EntriesOf(fam)[1].charset = "ANSI_CHARSET"
    /\ EntriesOf(fam)[1].index = 0

C3_AnsiOnly ==
    (pc = "resolved" /\ OnlyAnsiAtZero(query.family)
       /\ ~DeclaredExcluded(query.family, query.codepoint))
        => /\ (0 <= query.codepoint /\ query.codepoint <= 255) => result.status = "ok"
           /\ query.codepoint > 255 => result.status = "fallback"

\* the last code point of the Ansi range, resolved by such a family
C3_Witness ==
    /\ pc = "resolved"
    /\ OnlyAnsiAtZero(query.family)
    /\ query.codepoint = 255
    /\ result.status = "ok"
    /\ result.font = Some("Arial")

(***************************************************************************)
(* C4: a SYMBOL_CHARSET font definition with NEED_CONVERTED whose slot has *)
(* no accepted fontcharset line gives a non-empty errors list, and the run *)
(* is never normalized.                                                    *)
(***************************************************************************)
IsSymbolNeedConverted(raw) ==
    /\ IsFontDefLine(raw)
    /\ raw.value.t = "list"
    /\ Len(raw.value.parts) >= 3
    /\ raw.value.parts[2] = "SYMBOL_CHARSET"
    /\ \E k \in 3..Len(raw.value.parts) : raw.value.parts[k] = "NEED_CONVERTED"

IsAcceptedFontCharset(raw, fam, idx) ==
    /\ raw.shape = "kv"
    /\ MatchesIndexed(KeyRead(raw), "fontcharset")
    /\ KeyRead(raw).fam = fam
    /\ BaseVal(KeyRead(raw).idx, 10) = idx
    /\ raw.value.t # "empty"

HasUnregisteredSymbol ==
    \E i \in 1..Len(lines) :
        /\ IsSymbolNeedConverted(lines[i])
        /\ ~\E j \in 1..Len(lines) :
              IsAcceptedFontCharset(lines[j], KeyRead(lines[i]).fam,
                                    BaseVal(KeyRead(lines[i]).idx, 10))

C4_UnregisteredSymbol ==
    (AfterParse /\ HasUnregisteredSymbol) => (errors # <<>> /\ ~Normalized)

\* the missing registration is the only finding of the run
C4_Witness ==
    /\ pc = "exit1"
    /\ HasUnregisteredSymbol
    /\ Len(errors) = 1
    /\ errors[1].msg = "Missing fontcharset for SYMBOL_CHARSET with NEED_CONVERTED"

(***************************************************************************)
(* C5: a family with recorded definitions has no contiguity error iff its  *)
(* index set is 0..max; a set not starting at 0 is reported with its       *)
(* minimum; every index missing between minimum and maximum is reported.   *)
(***************************************************************************)
DefFamilies == {font_defs[i].family : i \in 1..Len(font_defs)}

ContiguityReports(fam) ==
    {e \in {errors[i] : i \in 1..Len(errors)} :
        e.fam = fam /\ e.msg \in {"indices must start at 0", "indices not contiguous"}}

ReportedMissing(fam) ==
    UNION {{e.missing[k] : k \in 1..Len(e.missing)} :
             e \in {r \in ContiguityReports(fam) : r.msg = "indices not contiguous"}}

C5_Contiguity ==
    AfterParse =>
      \A fam \in DefFamilies :
        LET S == IndicesOf(font_defs, fam)
            lo == CHOOSE x \in S : \A y \in S : x <= y
            hi == CHOOSE x \in S : \A y \in S : y <= x
        IN  /\ ContiguityReports(fam) = {} <=> S = 0..hi
            /\ lo # 0 => \E e \in ContiguityReports(fam) :
                            e.msg = "indices must start at 0" /\ e.n = lo
            /\ ReportedMissing(fam) = (lo..hi) \ S
            /\ S = {0, 1, 3} => 2 \in ReportedMissing(fam)

\* the index set {0, 1, 3}, reported with missing index 2
C5_Witness ==
    /\ pc = "parsed"
    /\ IndicesOf(font_defs, "dialog") = {0, 1, 3}
    /\ \E i \in 1..Len(errors) :
          errors[i] = Diag(0, "indices not contiguous", "dialog", 0, <<2>>)

(***************************************************************************)
(* C6: permuting the font-definition lines of an error-free input leaves   *)
(* every family's entry sequence the same, and that sequence is strictly   *)
(* ascending by index.                                                     *)
(***************************************************************************)
DefPositions == {i \in 1..Len(lines) : IsFontDefLine(lines[i])}

Bijections(D) == {f \in [D -> D] : \A a, b \in D : f[a] = f[b] => a = b}

\* the input with its font-definition lines rearranged by f
Rearranged(f) ==
    [i \in 1..Len(lines) |-> IF i \in DOMAIN f THEN lines[f[i]] ELSE lines[i]]

ModelOfFile(file) ==
    LET ps == parse_properties(file, prog = "interpreter")
    IN  [errors |-> ps.errors,
         model |-> build_normalized(ps.font_defs, ps.fontcharset, ps.exclusions, ps.globals_)]

C6_EntryOrder ==
    pc = "normalized" =>
      /\ \A fam \in DOMAIN families :
            \A k \in 1..(Len(families[fam]) - 1) :
                families[fam][k].index < families[fam][k + 1].index
      /\ \A f \in Bijections(DefPositions) :
            /\ ModelOfFile(Rearranged(f)).errors = <<>>
            /\ ModelOfFile(Rearranged(f)).model.families = families

\* an error-free input whose definitions of one family come in descending order
C6_Witness ==
    /\ pc = "normalized"
    /\ \E i, j \in 1..Len(font_defs) :
          /\ i < j
          /\ font_defs[i].family = font_defs[j].family
          /\ font_defs[i].index > font_defs[j].index

(***************************************************************************)
(* C7: in a normalized model every family's exclusion list is strictly     *)
(* ascending by (start, end), so it holds no range twice; it holds exactly *)
(* the distinct ranges accepted for the family; no family is mapped to an  *)
(* empty list.                                                             *)
(***************************************************************************)
C7_Exclusions ==
    Normalized =>
      /\ DOMAIN ex_norm = {exclusions[i].family : i \in 1..Len(exclusions)}
      /\ \A fam \in DOMAIN ex_norm :
            /\ ex_norm[fam] # <<>>
            /\ \A k \in 1..(Len(ex_norm[fam]) - 1) :
                  \/ ex_norm[fam][k].start < ex_norm[fam][k + 1].start
                  \/ /\ ex_norm[fam][k].start = ex_norm[fam][k + 1].start
                     /\ ex_norm[fam][k].end < ex_norm[fam][k + 1].end
            /\ {<<ex_norm[fam][k].start, ex_norm[fam][k].end>> : k \in 1..Len(ex_norm[fam])}
                  = AcceptedRanges(fam)

\* two identical exclusion lines, one range in the model
C7_Witness ==
    /\ pc = "normalized"
    /\ \E i, j \in 1..Len(lines) :
          /\ i < j
          /\ lines[i] = lines[j]
          /\ lines[i].key.pre = "exclusion"
          /\ Len(ex_norm[lines[i].key.fam]) = 1

(***************************************************************************)
(* C8: an input without an inputtextcharset line that is otherwise valid   *)
(* (it is error-free once such a line is added) has exactly the one error  *)
(* "Global: inputtextcharset is missing" and is not normalized; the same   *)
(* holds of default.char.                                                  *)
(***************************************************************************)
HasKey(key) == \E i \in 1..Len(lines) : lines[i].shape = "kv" /\ KeyRead(lines[i]) = key

ValidWith(raw) == parse_properties(Append(lines, raw), prog = "interpreter").errors = <<>>

C8_MissingGlobal ==
    AfterParse =>
      /\ (~HasKey(KeyInputTextCharset) /\ ValidWith(InputAnsi))
            => (errors = <<LineErr(0, "Global: inputtextcharset is missing")>>
                /\ ~Normalized)
      /\ (~HasKey(KeyDefaultChar) /\ ValidWith(DefaultChar65))
            => (errors = <<LineErr(0, "Global: default.char is missing")>>
                /\ ~Normalized)

\* a font definition and default.char, no inputtextcharset
C8_Witness ==
    /\ pc = "exit1"
    /\ ~HasKey(KeyInputTextCharset)
    /\ HasKey(KeyDefaultChar)
    /\ font_defs # <<>>
    /\ errors = <<LineErr(0, "Global: inputtextcharset is missing")>>

(***************************************************************************)
(* C9: an exclusion line whose hex start is greater than its hex end gives *)
(* exactly one error, and no range of it enters the exclusion lists.       *)
(***************************************************************************)
IsReversedExclusion(raw) ==
    /\ raw.shape = "kv"
    /\ MatchesIndexed(KeyRead(raw), "exclusion")
    /\ raw.value.t = "range"
    /\ BaseVal(raw.value.a, 16) > BaseVal(raw.value.b, 16)

ErrorsOfLine(n) == {k \in 1..Len(errors) : errors[k].ln = n}

C9_ReversedRange ==
    \A n \in 1..Len(lines) :
        IsReversedExclusion(lines[n]) =>
          /\ Cardinality(ErrorsOfLine(n)) = 1
          /\ \A i \in 1..Len(exclusions) :
                \A k \in 1..Len(exclusions[i].ranges) : exclusions[i].ranges[k].line # n
          /\ ~Normalized

\* exclusion.serif.0=0100-00FF after an accepted exclusion of the same family
C9_Witness ==
    /\ pc = "exit1"
    /\ \E n \in 2..Len(lines) :
          /\ IsReversedExclusion(lines[n])
          /\ lines[n].key.fam = "serif"
          /\ AcceptedRanges("serif") # {}
          /\ errors[1].msg = "exclusion range must satisfy 0x0000 <= start <= end <= 0xFFFF"

(***************************************************************************)
(* C10: entries are examined in ascending index order and the first match  *)
(* wins: an "ok" outcome names the matching entry of lowest index, and the *)
(* "Check" lines of the trace are the entries up to the winner, each once, *)
(* in ascending order.                                                     *)
(***************************************************************************)
EntryMatches(e, cp) ==
    \/ e.charset = "ANSI_CHARSET" /\ cp <= 255
    \/ e.charset = "SYMBOL_CHARSET" /\ e.needsConverted /\ e.converterClass # None

Checks == SelectSeq(trace, LAMBDA t : t.text \in {"Check ANSI", "Check SYMBOL"})

C10_FirstMatchWins ==
    (pc = "resolved" /\ result.status = "ok") =>
      LET es == EntriesOf(query.family)
          matching == {k \in 1..Len(es) : EntryMatches(es[k], query.codepoint)}
      IN  /\ matching # {}
          /\ LET w == CHOOSE k \in matching :
                        \A m \in matching : es[k].index <= es[m].index
                 upto == {k \in 1..Len(es) : es[k].index <= es[w].index}
             IN  /\ result.font = Some(es[w].font)
                 /\ Len(Checks) = Cardinality(upto)
                 /\ {Checks[k].index : k \in 1..Len(Checks)} = {es[k].index : k \in upto}
                 /\ \A k \in 1..(Len(Checks) - 1) : Checks[k].index < Checks[k + 1].index

\* the entry at index 1 wins after the entry at index 0 was skipped, and the
\* entry at index 2 is not examined
C10_Witness ==
    /\ pc = "resolved"
    /\ result.status = "ok"
    /\ Len(EntriesOf(query.family)) = 3
    /\ result.font = Some(EntriesOf(query.family)[2].font)
    /\ Len(Checks) = 2

(***************************************************************************)
(* C11: a Symbol entry that the iteration reaches gives "ok" (naming that  *)
(* entry) iff its needsConverted is true and its converterClass is         *)
(* present, whatever the code point; otherwise its "Check" line is         *)
(* followed by the skip reason and the iteration goes on with the next     *)
(* entry, or ends in "fallback" after the last one.                        *)
(***************************************************************************)
IsCheck(t) == t.text \in {"Check ANSI", "Check SYMBOL"}

\* entry k of the queried family is reached: no entry before it matches
Reached(k) ==
    \A m \in 1..(k - 1) : ~EntryMatches(EntriesOf(query.family)[m], query.codepoint)

C11_SymbolEntry ==
    (pc = "resolved" /\ result.status # "excluded") =>
      LET es == EntriesOf(query.family) IN
      \A k \in 1..Len(es) :
        (es[k].charset = "SYMBOL_CHARSET" /\ Reached(k)) =>
          LET registered == es[k].needsConverted /\ es[k].converterClass # None
              here == {p \in 1..Len(trace) :
                         trace[p].text = "Check SYMBOL" /\ trace[p].index = es[k].index}
          IN  /\ Cardinality(here) = 1
              /\ LET p == CHOOSE q \in here : TRUE IN
                  /\ trace[p].font = es[k].font
                  /\ registered <=>
                        /\ result.status = "ok"
                        /\ result.font = Some(es[k].font)
                        /\ result.charset = Some("SYMBOL_CHARSET")
                        /\ result.converterClass = es[k].converterClass
                        /\ p = Len(trace)
                  /\ ~registered =>
                        /\ p < Len(trace)
                        /\ trace[p + 1].text = "  skipped: NEED_CONVERTED or converterClass missing"
                        /\ IF k < Len(es)
                           THEN /\ p + 2 <= Len(trace)
                                /\ IsCheck(trace[p + 2])
                                /\ trace[p + 2].index = es[k + 1].index
                           ELSE /\ p + 1 = Len(trace)
                                /\ result.status = "fallback"

\* a Symbol entry that has a converter class but no NEED_CONVERTED is skipped
\* and the Ansi entry after it resolves the code point
C11_Witness ==
    /\ pc = "resolved"
    /\ result.status = "ok"
    /\ Len(EntriesOf(query.family)) = 2
    /\ EntriesOf(query.family)[1].charset = "SYMBOL_CHARSET"
    /\ ~EntriesOf(query.family)[1].needsConverted
    /\ EntriesOf(query.family)[1].converterClass # None
    /\ result.font = Some(EntriesOf(query.family)[2].font)
    /\ Len(trace) = 3

\* a registered Symbol entry resolves a code point above the Ansi range after
\* the Ansi entry before it did not match
C11_WitnessRegistered ==
    /\ pc = "resolved"
    /\ query.codepoint > 255
    /\ result.status = "ok"
    /\ result.charset = Some("SYMBOL_CHARSET")
    /\ Len(trace) = 2

(***************************************************************************)
(* C12: a code point that no accepted exclusion range of the family covers *)
(* and no entry of the family matches (a family without entries included)  *)
(* resolves to "fallback" carrying the model's default character.          *)
(***************************************************************************)
NoEntryMatches ==
    \A k \in 1..Len(EntriesOf(query.family)) :
        ~EntryMatches(EntriesOf(query.family)[k], query.codepoint)

C12_Fallback ==
    (pc = "resolved" /\ ~DeclaredExcluded(query.family, query.codepoint) /\ NoEntryMatches)
        => /\ result.status = "fallback"
           /\ result.fallbackDefaultChar = g.defaultChar
           /\ result.fallbackDefaultChar = globals_.defaultChar
           /\ result.fallbackDefaultChar # None
           /\ result.font = None

\* a family that is not in the model, and default.char=63
C12_Witness ==
    /\ pc = "resolved"
    /\ families # EmptyMap
    /\ query.family \notin DOMAIN families
    /\ result.status = "fallback"
    /\ result.fallbackDefaultChar = Some(63)

(***************************************************************************)
(* C13: choose_font called with explain = False returns an empty trace.    *)
(***************************************************************************)
C13_TraceOnlyOnRequest ==
    (pc = "resolved" /\ ~query.explain) => trace = <<>>

(***************************************************************************)
(* C14: line n has a "Duplicate key" error iff its key, as the program     *)
(* reads it, does not start with "exclusion." and equals the key of an     *)
(* earlier key=value line; line n has at most one such error, and a line   *)
(* whose key starts with "exclusion." never has one.                       *)
(***************************************************************************)
InExclusionNamespace(key) ==
    key.pre = "exclusion" \/ (key.pre = "" /\ key.fam = "exclusion")

RepeatsEarlierKey(n) ==
    \E m \in 1..(n - 1) : lines[m].shape = "kv" /\ KeyRead(lines[m]) = KeyRead(lines[n])

DuplicateKeyErrors(n) ==
    {k \in 1..Len(errors) : errors[k].ln = n /\ errors[k].msg = "Duplicate key"}

C14_DuplicateKey ==
    \A n \in 1..Len(lines) :
        /\ Cardinality(DuplicateKeyErrors(n)) <= 1
        /\ DuplicateKeyErrors(n) # {}
              <=> /\ lines[n].shape = "kv"
                  /\ ~InExclusionNamespace(KeyRead(lines[n]))
                  /\ RepeatsEarlierKey(n)

\* a key seen twice is reported at its second line, and next to it an
\* exclusion key seen twice is not reported
C14_Witness ==
    /\ Len(lines) = 4
    /\ DuplicateKeyErrors(1) = {}
    /\ DuplicateKeyErrors(2) # {}
    /\ lines[3].key.pre = "exclusion"
    /\ lines[3] = lines[4]
    /\ DuplicateKeyErrors(4) = {}

(***************************************************************************)
(* C15: a font-definition line (font name and charset given) whose slot    *)
(* (family, index) already has a recorded definition has exactly one       *)
(* "Duplicate FontDefinition" error, which names the line of the first     *)
(* recorded definition of the slot, also at a third or later occurrence;   *)
(* the recorded definition stays that of the first line.                   *)
(***************************************************************************)
ValueRead(raw) ==
    IF prog = "interpreter" THEN evaluate_arithmetic_value(raw.value) ELSE raw.value

\* a font-definition line that gives a font name and a charset
IsDefinition(n) == IsFontDefLine(lines[n]) /\ Len(Parts(ValueRead(lines[n]))) >= 2

SlotOf(n) == <<KeyRead(lines[n]).fam, BaseVal(KeyRead(lines[n]).idx, 10)>>

\* the first line that defines the slot of line n
FirstOf(n) ==
    CHOOSE f \in 1..n :
        /\ IsDefinition(f) /\ SlotOf(f) = SlotOf(n)
        /\ \A m \in 1..(f - 1) : ~(IsDefinition(m) /\ SlotOf(m) = SlotOf(n))

DuplicateDefErrors(n) ==
    {k \in 1..Len(errors) : errors[k].ln = n /\ errors[k].msg = "Duplicate FontDefinition"}

C15_DuplicateDefinition ==
    \A n \in 1..Len(lines) :
        IsDefinition(n) =>
          LET f == FirstOf(n)
              rec == {font_defs[i] : i \in {j \in 1..Len(font_defs) :
                          <<font_defs[j].family, font_defs[j].index>> = SlotOf(n)}}
          IN  /\ f = n => DuplicateDefErrors(n) = {}
              /\ f < n =>
                    /\ Cardinality(DuplicateDefErrors(n)) = 1
                    /\ \A k \in DuplicateDefErrors(n) :
                          /\ errors[k].missing = <<f>>
                          /\ <<errors[k].fam, errors[k].n>> = SlotOf(n)
              /\ Cardinality(rec) = 1
              /\ \A r \in rec :
                    /\ r.line = f
                    /\ r.font = Parts(ValueRead(lines[f]))[1]
                    /\ r.charset = Parts(ValueRead(lines[f]))[2]

\* three definitions of one slot under three different fonts: the third
\* names the first, although the second came in between
C15_Witness ==
    /\ Len(lines) >= 3
    /\ \E a, b, c \in 1..Len(lines) :
          /\ a < b /\ b < c
          /\ IsDefinition(a) /\ IsDefinition(b) /\ IsDefinition(c)
          /\ SlotOf(a) = SlotOf(b) /\ SlotOf(b) = SlotOf(c)
          /\ lines[a].value # lines[b].value /\ lines[b].value # lines[c].value
          /\ \E k \in DuplicateDefErrors(c) : errors[k].missing = <<a>>
          /\ DuplicateKeyErrors(b) = {}

(***************************************************************************)
(* C16: after the parse, a font definition with NEED_CONVERTED and a       *)
(* charset other than SYMBOL_CHARSET has an error at its line (the         *)
(* "non-symbol charset" error, once, when it is the recorded definition)   *)
(* and the run is not normalized; a fontcharset entry of a SYMBOL_CHARSET  *)
(* slot without NEED_CONVERTED has exactly one warning, at the entry's     *)
(* line, and adds no error: the errors are those of the input without the  *)
(* entry's line, and a run without errors does not end at exit 1.          *)
(***************************************************************************)
FlagsOf(n) == SubSeq(Parts(ValueRead(lines[n])), 3, Len(Parts(ValueRead(lines[n]))))

NeedConvertedNonSymbol(n) ==
    /\ IsDefinition(n)
    /\ Parts(ValueRead(lines[n]))[2] # "SYMBOL_CHARSET"
    /\ \E k \in 1..Len(FlagsOf(n)) : FlagsOf(n)[k] = "NEED_CONVERTED"

\* the input with line j turned into a comment
Blanked(j) == [lines EXCEPT ![j] = Comment]

ErrorsWithout(j) == parse_properties(Blanked(j), prog = "interpreter").errors

WarningsOfSlot(fam, idx) ==
    {k \in 1..Len(warnings) : warnings[k].fam = fam /\ warnings[k].n = idx}

\* a fontcharset entry whose slot is defined SYMBOL_CHARSET without NEED_CONVERTED
IsUnusedRegistration(fc) ==
    \E i \in 1..Len(font_defs) :
        /\ font_defs[i].family = fc.family /\ font_defs[i].index = fc.index
        /\ font_defs[i].charset = "SYMBOL_CHARSET"
        /\ ~font_defs[i].needsConverted

C16_FlagCharsetCoupling ==
    AfterParse =>
      /\ \A n \in 1..Len(lines) :
            NeedConvertedNonSymbol(n) =>
              /\ ErrorsOfLine(n) # {}
              /\ FirstOf(n) = n =>
                    Cardinality({k \in ErrorsOfLine(n) :
                        errors[k].msg = "NEED_CONVERTED used with non-symbol charset"}) = 1
              /\ ~Normalized
      /\ \A i \in 1..Len(fontcharset) :
            IsUnusedRegistration(fontcharset[i]) =>
              /\ Cardinality(WarningsOfSlot(fontcharset[i].family, fontcharset[i].index)) = 1
              /\ \A k \in WarningsOfSlot(fontcharset[i].family, fontcharset[i].index) :
                    /\ warnings[k].msg = "fontcharset present but NEED_CONVERTED not set"
                    /\ warnings[k].ln = fontcharset[i].line
              /\ ErrorsWithout(fontcharset[i].line) = errors
      /\ \A k \in 1..Len(warnings) :
            warnings[k].msg = "fontcharset present but NEED_CONVERTED not set"
              => \E i \in 1..Len(fontcharset) :
                    /\ IsUnusedRegistration(fontcharset[i])
                    /\ fontcharset[i].line = warnings[k].ln
      /\ pc = "exit1" => errors # <<>>

\* the unused registration is the only finding, and the run is normalized
C16_Witness ==
    /\ pc = "normalized"
    /\ errors = <<>>
    /\ Len(warnings) = 1
    /\ warnings[1].msg = "fontcharset present but NEED_CONVERTED not set"
    /\ \E i \in 1..Len(fontcharset) : IsUnusedRegistration(fontcharset[i])

(***************************************************************************)
(* C17: a fontcharset entry whose slot has no recorded font definition has *)
(* exactly one warning, at the entry's line, and adds no error (the errors *)
(* are those of the input without the entry's line); in the normalized     *)
(* model its class is the converterClass of no entry.                      *)
(***************************************************************************)
IsDangling(fc) ==
    ~\E i \in 1..Len(font_defs) :
        font_defs[i].family = fc.family /\ font_defs[i].index = fc.index

C17_DanglingFontCharset ==
    AfterParse =>
      \A i \in 1..Len(fontcharset) :
        IsDangling(fontcharset[i]) =>
          /\ Cardinality(WarningsOfSlot(fontcharset[i].family, fontcharset[i].index)) = 1
          /\ \A k \in WarningsOfSlot(fontcharset[i].family, fontcharset[i].index) :
                /\ warnings[k].msg = "fontcharset has no matching FontDefinition"
                /\ warnings[k].ln = fontcharset[i].line
          /\ ErrorsWithout(fontcharset[i].line) = errors
          /\ Normalized =>
                \A fam \in DOMAIN families :
                    \A k \in 1..Len(families[fam]) :
                        families[fam][k].converterClass # Some(fontcharset[i].class)

\* a normalized model with a Symbol entry that carries its own class, and a
\* dangling entry of another family
C17_Witness ==
    /\ pc = "normalized"
    /\ \E i \in 1..Len(fontcharset) : IsDangling(fontcharset[i])
    /\ \E fam \in DOMAIN families :
          \E k \in 1..Len(families[fam]) : families[fam][k].converterClass # None

(***************************************************************************)
(* C18: for every permutation of the lines of an input, the errors list is *)
(* empty iff it is empty for the input, and then the normalized model      *)
(* (families, exclusions, globals) is the same.                            *)
(***************************************************************************)
C18_OrderIndependence ==
    pc = "parsed" =>
      \A f \in Bijections(1..Len(lines)) :
          LET m == ModelOfFile(Rearranged(f)) IN
          /\ (m.errors = <<>>) <=> (errors = <<>>)
          /\ errors = <<>> =>
                m.model = build_normalized(font_defs, fontcharset, exclusions, globals_)

(***************************************************************************)
(* C19: a line exclusion.<family>.<index>=<hex>-<hex> with                 *)
(* 0 <= start <= end <= 0xFFFF has no error, and its range [start, end]    *)
(* is in the family's exclusion list, in the interpreter as in the lab4    *)
(* analyser.                                                               *)
(***************************************************************************)
IsValidExclusion(raw) ==
    /\ raw.shape = "kv"
    /\ MatchesIndexed(raw.key, "exclusion")
    /\ raw.value.t = "range"
    /\ raw.value.a # <<>> /\ raw.value.b # <<>>
    /\ BaseVal(raw.value.a, 16) <= BaseVal(raw.value.b, 16)
    /\ BaseVal(raw.value.b, 16) <= 65535

C19_ExclusionAccepted ==
    \A n \in 1..Len(lines) :
        IsValidExclusion(lines[n]) =>
          /\ ErrorsOfLine(n) = {}
          /\ \E i \in 1..Len(exclusions) :
                /\ exclusions[i].family = lines[n].key.fam
                /\ \E k \in 1..Len(exclusions[i].ranges) :
                      exclusions[i].ranges[k] =
                          [start |-> BaseVal(lines[n].value.a, 16),
                           end |-> BaseVal(lines[n].value.b, 16),
                           line |-> n]

(***************************************************************************)
(* C20: a line of no recognized shape (no "=", or a key that is none of    *)
(* default.char, inputtextcharset, fontcharset.<family>.<index>,           *)
(* exclusion.<family>.<index>, <family>.<index>) has exactly one           *)
(* "Expected key=value" or "Unknown key" error; its only other error is    *)
(* the "Duplicate key" error, which it has iff its key repeats an earlier  *)
(* key outside "exclusion.".                                               *)
(***************************************************************************)
IsRecognizedKey(key) ==
    \/ key = KeyDefaultChar
    \/ key = KeyInputTextCharset
    \/ MatchesIndexed(key, "fontcharset")
    \/ MatchesIndexed(key, "exclusion")
    \/ MatchesIndexed(key, "")

IsUnrecognized(raw) ==
    \/ raw.shape = "noeq"
    \/ raw.shape = "kv" /\ ~IsRecognizedKey(KeyRead(raw))

ShapeErrors(n) ==
    {k \in ErrorsOfLine(n) : errors[k].msg \in {"Expected key=value", "Unknown key"}}

\* the statement with "exactly one entry" for every such line
C20_OneError ==
    \A n \in 1..Len(lines) :
        IsUnrecognized(lines[n]) => Cardinality(ErrorsOfLine(n)) = 1

C20_UnrecognizedLine ==
    \A n \in 1..Len(lines) :
        IsUnrecognized(lines[n]) =>
          /\ Cardinality(ShapeErrors(n)) = 1
          /\ \A k \in ShapeErrors(n) :
                errors[k].msg = "Expected key=value" <=> lines[n].shape = "noeq"
          /\ ErrorsOfLine(n) = ShapeErrors(n) \cup DuplicateKeyErrors(n)
          /\ Cardinality(DuplicateKeyErrors(n)) <= 1
          /\ DuplicateKeyErrors(n) # {}
                <=> /\ lines[n].shape = "kv"
                    /\ ~InExclusionNamespace(KeyRead(lines[n]))
                    /\ RepeatsEarlierKey(n)

\* foo=x twice: the second line has the two errors; a line without "=" and
\* a repeated key under "exclusion." have one each
C20_Witness ==
    \E a, b \in 1..Len(lines) :
        /\ a < b
        /\ lines[a] = lines[b]
        /\ lines[a].shape = "kv"
        /\ IsUnrecognized(lines[a])
        /\ Cardinality(ErrorsOfLine(a)) = 1
        /\ Cardinality(ErrorsOfLine(b)) = 2

(***************************************************************************)
(* C21: in every normalized model default_char is an integer in            *)
(* 0..0x10FFFF and input_text_charset is ANSI_CHARSET or SYMBOL_CHARSET;   *)
(* a default.char line whose value, as the program reads it, is empty, not *)
(* a base-10 integer, negative or above 0x10FFFF has an error at its line  *)
(* and stores nothing: the stored value is always the value of an accepted *)
(* line, never a clamped one.                                              *)
(***************************************************************************)
IsDefaultCharLine(raw) == raw.shape = "kv" /\ KeyRead(raw) = KeyDefaultChar

IsInputTextCharsetLine(raw) == raw.shape = "kv" /\ KeyRead(raw) = KeyInputTextCharset

\* the value of a default.char line is a base-10 integer in 0..0x10FFFF
IsAcceptableChar(raw) ==
    /\ ValueRead(raw).t = "int"
    /\ ValueRead(raw).a # <<>>
    /\ \A i \in 1..Len(ValueRead(raw).a) : ValueRead(raw).a[i] \in 0..9
    /\ ~(ValueRead(raw).neg /\ BaseVal(ValueRead(raw).a, 10) > 0)
    /\ BaseVal(ValueRead(raw).a, 10) <= 1114111

CharOf(raw) == BaseVal(ValueRead(raw).a, 10)

IsAcceptableCharset(raw) ==
    ValueRead(raw).t = "word" /\ ValueRead(raw).w \in {"ANSI_CHARSET", "SYMBOL_CHARSET"}

C21_GlobalsWellFormed ==
    /\ Normalized =>
          /\ g.defaultChar # None
          /\ g.defaultChar[1] \in 0..1114111
          /\ g.inputTextCharset \in {Some("ANSI_CHARSET"), Some("SYMBOL_CHARSET")}
    /\ \A n \in 1..Len(lines) :
          (IsDefaultCharLine(lines[n]) /\ ~IsAcceptableChar(lines[n])) =>
            /\ \E k \in ErrorsOfLine(n) :
                  errors[k].msg \in {"default.char value is empty",
                                     "default.char must be an integer",
                                     "default.char out of range 0..0x10FFFF"}
            /\ ~Normalized
    /\ globals_.defaultChar # None =>
          \E n \in 1..Len(lines) :
              /\ IsDefaultCharLine(lines[n]) /\ IsAcceptableChar(lines[n])
              /\ globals_.defaultChar = Some(CharOf(lines[n]))

\* the largest code point is stored as it is, next to a rejected default.char line
C21_Witness ==
    /\ pc = "normalized"
    /\ g.defaultChar = Some(1114111)
    /\ g.inputTextCharset = Some("SYMBOL_CHARSET")

\* default.char=1114112 is rejected and leaves the global unset
C21_WitnessRejected ==
    /\ pc = "exit1"
    /\ \E n \in 1..Len(lines) :
          /\ IsDefaultCharLine(lines[n])
          /\ CharOf(lines[n]) = 1114112
          /\ \E k \in ErrorsOfLine(n) : errors[k].msg = "default.char out of range 0..0x10FFFF"
    /\ globals_.defaultChar = None

(***************************************************************************)
(* C22: in every normalized model no Ansi entry has needsConverted set or  *)
(* carries a converterClass, and every Symbol entry with needsConverted    *)
(* carries the class of the last accepted fontcharset line of its slot; so *)
(* a Symbol entry that choose_font examines is skipped iff its             *)
(* needsConverted is false.                                                *)
(***************************************************************************)
\* the accepted fontcharset lines of a slot
RegistrationsOf(fam, idx) ==
    {j \in 1..Len(lines) : IsAcceptedFontCharset(lines[j], fam, idx)}

C22_NormalizedEntries ==
    /\ Normalized =>
          \A fam \in DOMAIN families :
            \A k \in 1..Len(families[fam]) :
              LET e == families[fam][k]
                  regs == RegistrationsOf(fam, e.index)
              IN  /\ e.charset \in {"ANSI_CHARSET", "SYMBOL_CHARSET"}
                  /\ e.charset = "ANSI_CHARSET" =>
                        (~e.needsConverted /\ e.converterClass = None)
                  /\ (e.charset = "SYMBOL_CHARSET" /\ e.needsConverted) =>
                        /\ regs # {}
                        /\ e.converterClass # None
                        /\ \A j \in regs :
                              (\A m \in regs : m <= j)
                                => e.converterClass = Some(ValueRead(lines[j]))
    /\ pc = "resolved" =>
          \A k \in 1..Len(EntriesOf(query.family)) :
            LET e == EntriesOf(query.family)[k] IN
            \A p \in 1..Len(trace) :
              (trace[p].text = "Check SYMBOL" /\ trace[p].index = e.index) =>
                ((/\ p < Len(trace)
                  /\ trace[p + 1].text = "  skipped: NEED_CONVERTED or converterClass missing")
                    <=> ~e.needsConverted)

\* a slot registered twice under two spellings: the entry carries the class
\* of the later line and resolves the code point
C22_Witness ==
    /\ pc = "resolved"
    /\ result.status = "ok"
    /\ Cardinality(RegistrationsOf(query.family, 0)) = 2
    /\ \E j \in RegistrationsOf(query.family, 0) :
          /\ \A m \in RegistrationsOf(query.family, 0) : m <= j
          /\ result.converterClass = Some(ValueRead(lines[j]))

(***************************************************************************)
(* C23: after the parse a global is reported missing iff no line set it:   *)
(* a default.char or inputtextcharset line with an invalid value has its   *)
(* own error and does not count, so an input whose only such line is       *)
(* invalid has both errors; a global line that repeats the key has a       *)
(* "Duplicate key" error, and the stored value is that of the last         *)
(* accepted line.                                                          *)
(***************************************************************************)
CharSetters == {n \in 1..Len(lines) : IsDefaultCharLine(lines[n]) /\ IsAcceptableChar(lines[n])}

CharsetSetters ==
    {n \in 1..Len(lines) : IsInputTextCharsetLine(lines[n]) /\ IsAcceptableCharset(lines[n])}

Last(S) == CHOOSE n \in S : \A m \in S : m <= n

IsReported(msg) == \E k \in 1..Len(errors) : errors[k] = LineErr(0, msg)

ValueErrors(n) ==
    {k \in ErrorsOfLine(n) :
        errors[k].msg \in {"default.char value is empty",
                           "default.char must be an integer",
                           "default.char out of range 0..0x10FFFF",
                           "inputtextcharset must be one of CHARSETS"}}

C23_MissingIffNotSet ==
    LET chars == CharSetters
        charsets == CharsetSetters
    IN  /\ AfterParse =>
              /\ IsReported("Global: default.char is missing") <=> chars = {}
              /\ IsReported("Global: inputtextcharset is missing") <=> charsets = {}
        /\ \A n \in 1..Len(lines) :
              /\ IsDefaultCharLine(lines[n]) =>
                    (Cardinality(ValueErrors(n)) = IF n \in chars THEN 0 ELSE 1)
              /\ IsInputTextCharsetLine(lines[n]) =>
                    (Cardinality(ValueErrors(n)) = IF n \in charsets THEN 0 ELSE 1)
              /\ (IsDefaultCharLine(lines[n]) \/ IsInputTextCharsetLine(lines[n])) =>
                    (Cardinality(DuplicateKeyErrors(n)) = IF RepeatsEarlierKey(n) THEN 1 ELSE 0)
        /\ globals_.defaultChar =
              IF chars = {} THEN None ELSE Some(CharOf(lines[Last(chars)]))
        /\ globals_.inputTextCharset =
              IF charsets = {} THEN None ELSE Some(ValueRead(lines[Last(charsets)]).w)

\* the only default.char line is invalid: its error and the missing-global
\* error; inputtextcharset is given twice with two valid values: the
\* duplicate is reported and the second value is stored
C23_Witness ==
    /\ pc = "exit1"
    /\ Cardinality({n \in 1..Len(lines) : IsDefaultCharLine(lines[n])}) = 1
    /\ CharSetters = {}
    /\ IsReported("Global: default.char is missing")
    /\ Cardinality(CharsetSetters) = 2
    /\ DuplicateKeyErrors(Last(CharsetSetters)) # {}
    /\ globals_.inputTextCharset = Some(ValueRead(lines[Last(CharsetSetters)]).w)
    /\ ~IsReported("Global: inputtextcharset is missing")

====
